---- MODULE Spec2Model ----
(***************************************************************************)
(* Model of the clothing price matcher (src/pricing/model.py):             *)
(* ClothingPriceModel.batch_search, _search_single, _fetch_products and    *)
(* the scoring helpers _normalize_text, _token_similarity and              *)
(* _title_similarity.                                                      *)
(*                                                                         *)
(* Texts are sequences of characters; a character is a one-element token.  *)
(* "e'" stands for U+00E9 (e with acute accent) and "EUR" for U+20AC (the  *)
(* euro sign, a non-ASCII character without an ASCII decomposition).       *)
(* Scores are exact rationals <<numerator, denominator>> in lowest terms.  *)
(***************************************************************************)
EXTENDS Integers, Sequences, FiniteSets, TLC

\* ------------------------------------------------------------ bounds

\* longest batch of queries handed to batch_search
MaxQueries == 2

\* most elements of products arrays the remote returns during one batch
MaxProducts == 2

\* the longest text a helper is applied to on its own
MaxText == 3

\* the calls of _build_handler and the requests served in one process
MaxBuilds == 2

MaxRequests == 2

\* ------------------------------------------------------------ rationals

RECURSIVE Gcd(_, _)
Gcd(a, b) == IF b = 0 THEN a ELSE Gcd(b, a % b)

Abs(n) == IF n < 0 THEN -n ELSE n

\* the rational n/d (d > 0) in lowest terms
Rat(n, d) == LET g == Gcd(Abs(n), d) IN <<n \div g, d \div g>>

RAdd(x, y) == Rat(x[1] * y[2] + y[1] * x[2], x[2] * y[2])

RMul(x, y) == Rat(x[1] * y[1], x[2] * y[2])

RLess(x, y) == x[1] * y[2] < y[1] * x[2]

RLeq(x, y) == x[1] * y[2] <= y[1] * x[2]

Zero == <<0, 1>>

One == <<1, 1>>

\* -math.inf, the initial best_score: below every score
NegInf == <<-1000, 1>>

\* ------------------------------------------------------------ characters

LowerLetters ==
    {"a", "b", "c", "d", "e", "f", "g", "h", "i", "j", "k", "l", "m",
     "n", "o", "p", "q", "r", "s", "t", "u", "v", "w", "x", "y", "z"}

Digits == {"0", "1", "2", "3", "4", "5", "6", "7", "8", "9"}

\* str.lower() on one character
LowerChar(c) ==
    CASE c = "N" -> "n"
      [] c = "K" -> "k"
      [] c = "A" -> "a"
      [] c = "D" -> "d"
      [] c = "T" -> "t"
      [] c = "F" -> "f"
      [] c = "P" -> "p"
      [] OTHER -> c

\* unicodedata.normalize("NFKD", c).encode("ascii", "ignore").decode("ascii")
\* on one character: the accent of a decomposed letter and every other
\* non-ASCII character are dropped
AsciiFold(c) ==
    CASE c = "e'" -> <<"e">>
      [] c = "EUR" -> <<>>
      [] OTHER -> <<c>>

\* [a-z0-9]
IsAlnum(c) == c \in LowerLetters \cup Digits

\* what str.strip() and str.split() treat as whitespace
IsSpace(c) == c \in {" ", "\t"}

\* ------------------------------------------------------------ text helpers

RECURSIVE FlatMap(_, _)
FlatMap(F(_), s) == IF s = <<>> THEN <<>> ELSE F(Head(s)) \o FlatMap(F, Tail(s))

MapSeq(F(_), s) == [i \in 1..Len(s) |-> F(s[i])]

\* re.sub(r"[^a-z0-9]+", " ", s): every maximal run of other characters
\* becomes one space
RECURSIVE ReSubNonAlnum(_)
ReSubNonAlnum(s) ==
    IF s = <<>> THEN <<>>
    ELSE IF IsAlnum(Head(s)) THEN <<Head(s)>> \o ReSubNonAlnum(Tail(s))
    ELSE IF Len(s) > 1 /\ ~IsAlnum(s[2]) THEN ReSubNonAlnum(Tail(s))
    ELSE <<" ">> \o ReSubNonAlnum(Tail(s))

\* str.split(): the maximal runs of non-whitespace characters, in order
RECURSIVE SplitAcc(_, _)
SplitAcc(s, cur) ==
    IF s = <<>> THEN (IF cur = <<>> THEN <<>> ELSE <<cur>>)
    ELSE IF IsSpace(Head(s))
         THEN (IF cur = <<>> THEN <<>> ELSE <<cur>>) \o SplitAcc(Tail(s), <<>>)
         ELSE SplitAcc(Tail(s), Append(cur, Head(s)))

Split(s) == SplitAcc(s, <<>>)

\* " ".join(tokens)
RECURSIVE Join(_)
Join(tokens) ==
    IF tokens = <<>> THEN <<>>
    ELSE IF Len(tokens) = 1 THEN tokens[1]
    ELSE tokens[1] \o <<" ">> \o Join(Tail(tokens))

\* str.strip()
RECURSIVE LStrip(_)
LStrip(s) == IF s # <<>> /\ IsSpace(Head(s)) THEN LStrip(Tail(s)) ELSE s

RECURSIVE RStrip(_)
RStrip(s) ==
    IF s # <<>> /\ IsSpace(s[Len(s)]) THEN RStrip(SubSeq(s, 1, Len(s) - 1)) ELSE s

Strip(s) == RStrip(LStrip(s))

\* ------------------------------------------------------------ scoring helpers

\* variant: the whitespace of the substituted text is left as it is
_normalize_text_unjoined(value) ==
    ReSubNonAlnum(MapSeq(LowerChar, FlatMap(AsciiFold, value)))

_normalize_text(value) ==
    LET ascii == FlatMap(AsciiFold, value)
        lowered == MapSeq(LowerChar, ascii)
        subbed == ReSubNonAlnum(lowered)
    IN  Join(Split(subbed))

\* set(tokens)
SetOf(tokens) == {tokens[i] : i \in 1..Len(tokens)}

\* set(s.split())
TokenSet(s) == SetOf(Split(s))

\* variant: two empty token sets count as equal
JaccardEmptyIsOne(candidate_tokens, query_tokens) ==
    IF candidate_tokens = {} /\ query_tokens = {} THEN One
    ELSE IF candidate_tokens = {} \/ query_tokens = {} THEN Zero
    ELSE Rat(Cardinality(candidate_tokens \cap query_tokens),
             Cardinality(candidate_tokens \cup query_tokens))

\* the value _token_similarity returns for the two token sets
Jaccard(candidate_tokens, query_tokens) ==
    IF candidate_tokens = {} \/ query_tokens = {} THEN Zero
    ELSE Rat(Cardinality(candidate_tokens \cap query_tokens),
             Cardinality(candidate_tokens \cup query_tokens))

_token_similarity(candidate, query) == Jaccard(TokenSet(candidate), TokenSet(query))

\* length of the common run of a from i and b from j
RECURSIVE RunLength(_, _, _, _)
RunLength(a, b, i, j) ==
    IF i > Len(a) \/ j > Len(b) THEN 0
    ELSE IF a[i] # b[j] THEN 0
    ELSE 1 + RunLength(a, b, i + 1, j + 1)

\* difflib.SequenceMatcher.find_longest_match without junk: <<i, j, k>> is
\* the longest common block a[i..i+k-1] = b[j..j+k-1], the earliest in a
\* among the longest, the earliest in b among those (a longer block replaces
\* the best one only when strictly longer); k = 0 when a and b share no
\* character
RECURSIVE LongestInRow(_, _, _, _, _)
LongestInRow(a, b, i, j, best) ==
    IF j > Len(b) THEN best
    ELSE LET k == RunLength(a, b, i, j)
         IN  IF k > best[3] THEN LongestInRow(a, b, i, j + 1, <<i, j, k>>)
             ELSE LongestInRow(a, b, i, j + 1, best)

RECURSIVE LongestFrom(_, _, _, _)
LongestFrom(a, b, i, best) ==
    IF i > Len(a) THEN best
    ELSE LongestFrom(a, b, i + 1, LongestInRow(a, b, i, 1, best))

find_longest_match(a, b) == LongestFrom(a, b, 1, <<1, 1, 0>>)

\* sum of the sizes of SequenceMatcher.get_matching_blocks(): the longest
\* block, then the same to its left and to its right
RECURSIVE MatchingSize(_, _)
\* the same, blk being the longest block of a and b
BlocksAround(a, b, blk) ==
    IF blk[3] = 0 THEN 0
    ELSE blk[3] + MatchingSize(SubSeq(a, 1, blk[1] - 1), SubSeq(b, 1, blk[2] - 1))
                + MatchingSize(SubSeq(a, blk[1] + blk[3], Len(a)),
                               SubSeq(b, blk[2] + blk[3], Len(b)))

MatchingSize(a, b) ==
    IF a = <<>> \/ b = <<>> THEN 0 ELSE BlocksAround(a, b, find_longest_match(a, b))

\* SequenceMatcher(None, a, b).ratio()
SequenceRatio(a, b) ==
    IF Len(a) + Len(b) = 0 THEN One
    ELSE Rat(2 * MatchingSize(a, b), Len(a) + Len(b))

_title_similarity(candidate, query) ==
    LET token_score == _token_similarity(candidate, query)
        sequence_score == SequenceRatio(candidate, query)
    IN  RAdd(RMul(<<7, 10>>, token_score), RMul(<<3, 10>>, sequence_score))

\* ------------------------------------------------------------ JSON values

\* A decoded JSON value found under a key of a product object: k is its
\* kind, s the characters of a string, n the value of a number (for a
\* boolean 1 or 0).  "absent" is a key the object does not have.
JAbsent == [k |-> "absent", s |-> <<>>, n |-> 0]

JNull == [k |-> "null", s |-> <<>>, n |-> 0]

JStr(s) == [k |-> "str", s |-> s, n |-> 0]

JNum(n) == [k |-> "num", s |-> <<>>, n |-> n]

JTrue == [k |-> "bool", s |-> <<>>, n |-> 1]

\* an element of the products array: a JSON object with the three keys
\* (each possibly absent), or some other JSON value
JObject(brand, title, price) ==
    [obj |-> TRUE, brand |-> brand, title |-> title, price |-> price]

JNonObject == [obj |-> FALSE, brand |-> JAbsent, title |-> JAbsent, price |-> JAbsent]

DigitChar(d) == <<"0", "1", "2", "3", "4", "5", "6", "7", "8", "9">>[d + 1]

DigitValue(c) == CHOOSE d \in 0..9 : DigitChar(d) = c

\* str(n) for a natural number
RECURSIVE Decimal(_)
Decimal(n) == IF n < 10 THEN <<DigitChar(n)>> ELSE Append(Decimal(n \div 10), DigitChar(n % 10))

\* int value of a string of decimal digits
RECURSIVE DecimalValue(_)
DecimalValue(s) ==
    IF s = <<>> THEN 0
    ELSE 10 * DecimalValue(SubSeq(s, 1, Len(s) - 1)) + DigitValue(s[Len(s)])

\* product.get(key, ""): the default replaces an absent key only
GetOrEmpty(v) == IF v.k = "absent" THEN JStr(<<>>) ELSE v

\* str(value)
StrOf(v) ==
    CASE v.k = "str" -> v.s
      [] v.k = "num" -> Decimal(v.n)
      [] v.k = "null" -> <<"N", "o", "n", "e">>
      [] v.k = "bool" -> (IF v.n = 1 THEN <<"T", "r", "u", "e">>
                          ELSE <<"F", "a", "l", "s", "e">>)

\* float(value): ok is FALSE where float raises ValueError or TypeError.
\* float of a string ignores surrounding whitespace; the numeric strings of
\* the model are the strings of decimal digits.
FloatOf(v) ==
    CASE v.k = "num" -> [ok |-> TRUE, value |-> v.n]
      [] v.k = "bool" -> [ok |-> TRUE, value |-> v.n]
      [] v.k = "str" ->
           (LET t == Strip(v.s)
            IN  IF t # <<>> /\ \A i \in 1..Len(t) : t[i] \in Digits
                THEN [ok |-> TRUE, value |-> DecimalValue(t)]
                ELSE [ok |-> FALSE, value |-> 0])
      [] OTHER -> [ok |-> FALSE, value |-> 0]

\* ------------------------------------------------------------ inputs

TextNk == <<"N", "k">>

TextPg4 == <<"p", "g", " ", "4">>

\* the (brand, title) pairs a caller may put in a batch
Queries ==
    { [brand |-> TextNk, title |-> TextPg4],
      [brand |-> <<>>, title |-> TextPg4],
      [brand |-> TextNk, title |-> <<>>],
      [brand |-> <<"-">>, title |-> TextPg4] }

\* the thresholds a caller may pass; batch_search does not clamp min_score
Thresholds == { <<0, 1>>, <<3, 10>>, <<1, 1>>, <<3, 2>> }

\* the elements a products array may hold during a batch
Elements ==
    { JObject(JStr(TextNk), JStr(<<"a", "z", " ", "p", "g", " ", "4">>), JNum(130)),
      JObject(JStr(<<" ", "N", "K", " ">>), JStr(<<"P", "g", "-", "4">>), JStr(<<"8", "9">>)),
      JObject(JStr(TextNk), JStr(TextPg4), JNum(75)),
      JObject(JStr(<<"N", "k", " ", "a">>), JStr(TextPg4), JNum(190)),
      JObject(JStr(<<"!">>), JStr(<<"p", "g">>), JNum(5)),
      JObject(JStr(TextNk), JStr(TextPg4), JStr(<<"x">>)) }

\* further elements, for _fetch_products on its own
InvalidElements ==
    { JObject(JAbsent, JStr(TextPg4), JNum(59)),
      JObject(JNull, JStr(TextPg4), JNum(59)),
      JObject(JStr(<<>>), JStr(TextPg4), JNum(59)),
      JObject(JStr(<<" ">>), JStr(TextPg4), JNum(59)),
      JObject(JStr(TextNk), JAbsent, JNum(39)),
      JObject(JStr(TextNk), JStr(<<>>), JNum(39)),
      JObject(JStr(TextNk), JNull, JNum(39)),
      JObject(JStr(TextNk), JStr(TextPg4), JAbsent),
      JObject(JStr(TextNk), JStr(TextPg4), JNull),
      JObject(JStr(TextNk), JStr(TextPg4), JStr(<<>>)),
      JObject(JStr(TextNk), JStr(TextPg4), JTrue),
      JObject(JNum(7), JStr(TextPg4), JNum(59)),
      JNonObject }

SeqsUpTo(S, n) == UNION { [1..k -> S] : k \in 0..n }

\* ------------------------------------------------------------ _fetch_products

_Product(brand, title, price) == [brand |-> brand, title |-> title, price |-> price]

\* one pass of the loop over the products array: the _Product appended for
\* this element, or nothing
\* the try block of the loop: price is float(price_value) or its failure
ConvertPrice(brand_value, title_value, price) ==
    IF ~price.ok THEN <<>> ELSE <<_Product(brand_value, title_value, price.value)>>

\* the loop body once brand_value, title_value and price_value are read
KeepProduct(brand_value, title_value, price_value) ==
    IF brand_value = <<>> \/ title_value = <<>> \/ price_value.k \in {"absent", "null"}
    THEN <<>>
    ELSE ConvertPrice(brand_value, title_value, FloatOf(price_value))

ParseProduct(product) ==
    IF ~product.obj THEN <<>>
    ELSE KeepProduct(Strip(StrOf(GetOrEmpty(product.brand))),
                     Strip(StrOf(GetOrEmpty(product.title))),
                     product.price)

\* ParseProduct on the elements of the model, computed once
ParsedElements == [e \in Elements \cup InvalidElements |-> ParseProduct(e)]

Parsed(product) == ParsedElements[product]

\* the response of http_get: a JSON object with its products array, or a
\* JSON value that is no object
ObjectPayload(products) == [k |-> "object", products |-> products]

OtherPayload == [k |-> "other", products |-> <<>>]

_fetch_products(payload) ==
    LET products == IF payload.k = "object" THEN payload.products ELSE <<>>
    IN  FlatMap(Parsed, products)

\* the q parameter of the request: f"{brand} {title}".strip()
QueryText(brand, title) == Strip(brand \o <<" ">> \o title)

\* ------------------------------------------------------------ _search_single

\* Optional[SearchResult]: None, or a SearchResult
None == [some |-> FALSE, brand |-> <<>>, title |-> <<>>, price |-> 0, score |-> Zero]

SearchResult(brand, title, price, score) ==
    [some |-> TRUE, brand |-> brand, title |-> title, price |-> price, score |-> score]

\* the properties normalized_brand and normalized_title of a _Product
product_normalized_brand(product) == _normalize_text(product.brand)

product_normalized_title(product) == _normalize_text(product.title)

\* variant: brand_score is the token similarity for an exact brand as well
BrandScoreTokens(candidate_brand, query_brand) ==
    _token_similarity(candidate_brand, query_brand)

\* variant: two empty normalized brands are not an exact match
BrandScoreNonEmpty(candidate_brand, query_brand) ==
    IF candidate_brand = query_brand /\ query_brand # <<>> THEN One
    ELSE _token_similarity(candidate_brand, query_brand)

\* brand_score of a candidate whose normalized brand is candidate_brand
BrandScore(candidate_brand, query_brand) ==
    IF candidate_brand = query_brand THEN One
    ELSE _token_similarity(candidate_brand, query_brand)

\* variant: the two scores are added without the weights
CombinedSum(brand_score, title_score) == RAdd(brand_score, title_score)

Combined(brand_score, title_score) ==
    RAdd(RMul(<<1, 2>>, brand_score), RMul(<<1, 2>>, title_score))

\* variant: the brand filter without the exemption of an exact brand
BrandSkipScoreOnly(brand_score, candidate_brand, query_brand, min) ==
    RLess(brand_score, min)

\* the brand filter: the first "continue" of the loop
BrandSkip(brand_score, candidate_brand, query_brand, min) ==
    RLess(brand_score, min) /\ candidate_brand # query_brand

\* variant: the title filter with the comparison turned around
TitleSkipReversed(title_score, min) == RLess(min, title_score)

\* the title filter: the second "continue" of the loop
TitleSkip(title_score, min) == RLess(title_score, min)

\* variant: a candidate that ties with the best one replaces it
ImprovesOrTies(combined, best) == RLeq(best, combined)

\* whether the candidate replaces the best one seen so far
Improves(combined, best) == RLess(best, combined)

ScoreRecord(candidate_brand, brand_score, title_score) ==
    [candidate_brand |-> candidate_brand,
     brand_score |-> brand_score,
     title_score |-> title_score,
     combined |-> Combined(brand_score, title_score)]

\* the scores of a candidate whose normalized brand and title are given
ScoresOf(candidate_brand, candidate_title, query_brand, query_title) ==
    ScoreRecord(candidate_brand, BrandScore(candidate_brand, query_brand),
                _title_similarity(candidate_title, query_title))

\* what one pass of the loop computes for a candidate, given the normalized
\* brand and title of the query
CandidateScores(product, query_brand, query_title) ==
    ScoresOf(product_normalized_brand(product), product_normalized_title(product),
             query_brand, query_title)

NormalizedQuery(q) == <<_normalize_text(q.brand), _normalize_text(q.title)>>

ScoreTable ==
    [key \in { <<ParseProduct(e)[1], NormalizedQuery(q)>> :
                 e \in { x \in Elements : ParseProduct(x) # <<>> }, q \in Queries }
       |-> CandidateScores(key[1], key[2][1], key[2][2])]

Scores(product, query_brand, query_title) ==
    ScoreTable[<<product, <<query_brand, query_title>>>>]

\* the loop over products from position i on; best_product is a position in
\* products (0 for None)
RECURSIVE ScanProducts(_, _, _, _, _, _, _)
\* one pass of the loop, c being the scores of products[i]
ScanStep(products, i, query_brand, query_title, min, best_product, best_score, c) ==
    IF BrandSkip(c.brand_score, c.candidate_brand, query_brand, min)
    THEN ScanProducts(products, i + 1, query_brand, query_title, min,
                      best_product, best_score)
    ELSE IF TitleSkip(c.title_score, min)
    THEN ScanProducts(products, i + 1, query_brand, query_title, min,
                      best_product, best_score)
    ELSE IF Improves(c.combined, best_score)
    THEN ScanProducts(products, i + 1, query_brand, query_title, min, i, c.combined)
    ELSE ScanProducts(products, i + 1, query_brand, query_title, min,
                      best_product, best_score)

ScanProducts(products, i, query_brand, query_title, min, best_product, best_score) ==
    IF i > Len(products) THEN [best_product |-> best_product, best_score |-> best_score]
    ELSE ScanStep(products, i, query_brand, query_title, min, best_product, best_score,
                  Scores(products[i], query_brand, query_title))

\* variant: the result carries the normalized brand and title
ReturnValueNormalized(products, best_product, best_score, min) ==
    IF best_product = 0 \/ RLess(best_score, min) THEN None
    ELSE SearchResult(_normalize_text(products[best_product].brand),
                      _normalize_text(products[best_product].title),
                      products[best_product].price, best_score)

\* the return statements after the loop
ReturnValue(products, best_product, best_score, min) ==
    IF best_product = 0 \/ RLess(best_score, min) THEN None
    ELSE SearchResult(products[best_product].brand, products[best_product].title,
                      products[best_product].price, best_score)

\* the locals of _search_single at its return and the value returned
Returned(products, query_brand, query_title, scan, min) ==
    [normalized_brand |-> query_brand,
     normalized_title |-> query_title,
     products |-> products,
     best_product |-> scan.best_product,
     best_score |-> scan.best_score,
     result |-> ReturnValue(products, scan.best_product, scan.best_score, min)]

\* _search_single from the normalized query and the parsed products on
SearchProducts(products, query_brand, query_title, min) ==
    Returned(products, query_brand, query_title,
             ScanProducts(products, 1, query_brand, query_title, min, 0, NegInf),
             min)

\* _search_single from the response of http_get on
SearchFetched(brand, title, min, payload) ==
    SearchProducts(_fetch_products(payload), _normalize_text(brand),
                   _normalize_text(title), min)

\* the responses http_get may return when at most n more elements fit the
\* batch
Payloads(n) == { ObjectPayload(ps) : ps \in SeqsUpTo(Elements, n) } \cup { OtherPayload }

\* variant: the call leaves min_score out, so the default 0.45 applies
CallSearchSingleDefault(brand, title, min, payload) ==
    SearchFetched(brand, title, <<9, 20>>, payload)

\* batch_search's call of _search_single for one query: the threshold it
\* hands over is its own min_score
CallSearchSingle(brand, title, min, payload) == SearchFetched(brand, title, min, payload)

\* ------------------------------------------------------------ batch_search

\* no response: http_get was not called, or it raised RemoteLookupError
NoPayload == [k |-> "none", products |-> <<>>]

ErrorPayload == [k |-> "RemoteLookupError", products |-> <<>>]

VARIABLES
    queries,       \* the batch handed to batch_search
    min_score,     \* its threshold
    results,       \* the list batch_search builds
    pc,            \* "running" inside the loop of batch_search, "returned" after it
    http_calls,    \* the calls of http_get so far: the position of the query, q
                   \* and the response (or the error raised)
    payload,       \* what http_get answered for the latest query
    normalized_brand,  \* locals of the latest _search_single at its return
    normalized_title,
    products,
    best_product,
    best_score,
    fetched,       \* elements of products arrays received so far
    raised,        \* the exception that left the operation, "none" while none did
    limit,         \* the limit and the timeout the model is constructed with
    timeout,
    adapter,       \* the entry point that calls batch_search, with its request
    call           \* the arguments and the value of the latest helper call on record

\* what the loop of batch_search leaves alone
outside == <<raised, limit, timeout, adapter, call>>

vars == <<queries, min_score, results, pc, http_calls, payload, normalized_brand,
          normalized_title, products, best_product, best_score, fetched, outside>>

\* the defaults of the constructor
DefaultLimit == 10

DefaultTimeout == 10

\* no entry point: batch_search is called directly
NoAdapter == [name |-> "none"]

\* no helper call is on record
NoCall == [args |-> <<>>, ret |-> <<>>]

\* a model constructed with the defaults, batch_search called directly
DirectCall ==
    /\ raised = "none"
    /\ limit = DefaultLimit
    /\ timeout = DefaultTimeout
    /\ adapter = NoAdapter
    /\ call = NoCall

Init ==
    /\ queries \in SeqsUpTo(Queries, MaxQueries)
    /\ min_score \in Thresholds
    /\ results = <<>>
    /\ pc = "running"
    /\ http_calls = <<>>
    /\ payload = NoPayload
    /\ normalized_brand = <<>>
    /\ normalized_title = <<>>
    /\ products = <<>>
    /\ best_product = 0
    /\ best_score = NegInf
    /\ fetched = 0
    /\ DirectCall

\* variant: the loop counts the requests made, not the results appended
PositionFromCalls == Len(http_calls) + 1

\* the position of the query the loop of batch_search is at
Position == Len(results) + 1

\* variant: the loop stops at a query whose request raised RemoteLookupError
InLoopUntilError ==
    pc = "running" /\ Position <= Len(queries) /\ payload.k # "RemoteLookupError"

InLoop == pc = "running" /\ Position <= Len(queries)

\* variant: only the brand is tested
IsEmptyBrand(q) == q.brand = <<>>

IsEmptyQuery(q) == q.brand = <<>> \/ q.title = <<>>

HttpCall(i, q, response) ==
    [i |-> i, q |-> QueryText(q.brand, q.title), response |-> response]

\* _search_single returns None before any request: brand or title is empty
SearchSingleEmpty ==
    /\ InLoop
    /\ IsEmptyQuery(queries[Position])
    /\ results' = Append(results, None)
    /\ payload' = NoPayload
    /\ normalized_brand' = <<>>
    /\ normalized_title' = <<>>
    /\ products' = <<>>
    /\ best_product' = 0
    /\ best_score' = NegInf
    /\ UNCHANGED <<queries, min_score, pc, http_calls, fetched, outside>>

\* variant: after RemoteLookupError the same query is requested again
SearchSingleRemoteErrorRetry ==
    /\ InLoop
    /\ ~IsEmptyQuery(queries[Position])
    /\ http_calls' = Append(http_calls,
                             HttpCall(Position, queries[Position], ErrorPayload))
    /\ payload' = ErrorPayload
    /\ UNCHANGED <<queries, min_score, results, pc, normalized_brand, normalized_title,
                   products, best_product, best_score, fetched, outside>>

\* http_get raises RemoteLookupError: _search_single catches it and returns None
SearchSingleRemoteError ==
    /\ InLoop
    /\ ~IsEmptyQuery(queries[Position])
    /\ http_calls' = Append(http_calls,
                             HttpCall(Position, queries[Position], ErrorPayload))
    /\ results' = Append(results, None)
    /\ payload' = ErrorPayload
    /\ normalized_brand' = _normalize_text(queries[Position].brand)
    /\ normalized_title' = _normalize_text(queries[Position].title)
    /\ products' = <<>>
    /\ best_product' = 0
    /\ best_score' = NegInf
    /\ UNCHANGED <<queries, min_score, pc, fetched, outside>>

\* http_get returns a response: _search_single parses and scores it
SearchSingleScored ==
    /\ InLoop
    /\ ~IsEmptyQuery(queries[Position])
    /\ \E p \in Payloads(MaxProducts - fetched) :
       \E out \in { CallSearchSingle(queries[Position].brand, queries[Position].title,
                                     min_score, p) } :
             /\ http_calls' = Append(http_calls, HttpCall(Position, queries[Position], p))
             /\ payload' = p
             /\ normalized_brand' = out.normalized_brand
             /\ normalized_title' = out.normalized_title
             /\ products' = out.products
             /\ best_product' = out.best_product
             /\ best_score' = out.best_score
             /\ results' = Append(results, out.result)
             /\ fetched' = fetched + Len(p.products)
    /\ UNCHANGED <<queries, min_score, pc, outside>>

\* the loop is over: batch_search returns results
BatchSearchReturn ==
    /\ pc = "running"
    /\ ~InLoop
    /\ pc' = "returned"
    /\ UNCHANGED <<queries, min_score, results, http_calls, payload, normalized_brand,
                   normalized_title, products, best_product, best_score, fetched,
                   outside>>

Next ==
    \/ SearchSingleEmpty
    \/ SearchSingleRemoteError
    \/ SearchSingleScored
    \/ BatchSearchReturn

Spec == Init /\ [][Next]_vars

\* ------------------------------------------------------------ _fetch_products alone

\* the responses _fetch_products is applied to on its own
FetchPayloads ==
    { ObjectPayload(ps) : ps \in SeqsUpTo(Elements \cup InvalidElements, MaxProducts) }
      \cup { OtherPayload }

InitFetch ==
    /\ payload \in FetchPayloads
    /\ pc = "fetching"
    /\ normalized_brand = <<>>
    /\ normalized_title = <<>>
    /\ products = <<>>
    /\ queries = <<>>
    /\ min_score = Zero
    /\ results = <<>>
    /\ http_calls = <<>>
    /\ best_product = 0
    /\ best_score = NegInf
    /\ fetched = 0
    /\ DirectCall

\* _fetch_products returns the list it built from the response
FetchProducts ==
    /\ pc = "fetching"
    /\ products' = _fetch_products(payload)
    /\ pc' = "fetched"
    /\ UNCHANGED <<queries, min_score, results, http_calls, payload, normalized_brand,
                   normalized_title, best_product, best_score, fetched, outside>>

NextFetch == FetchProducts

SpecFetch == InitFetch /\ [][NextFetch]_vars

\* ------------------------------------------------------------ batch_search on any input

\* a JSON object without a products key: payload.get("products", []) is []
NoProductsPayload == [k |-> "no_products", products |-> <<>>]

\* a JSON object whose products is a string or an object: the loop of
\* _fetch_products runs over characters or keys, none of them a dict
TextProductsPayload == [k |-> "text_products", products |-> <<>>]

\* a JSON object whose products is null, a number or a boolean
ScalarProductsPayload == [k |-> "scalar_products", products |-> <<>>]

\* the for statement of _fetch_products: iter(products) raises TypeError for
\* None, a number or a boolean
ProductsIterable(body) == body.k # "scalar_products"

\* the parsed JSON bodies http_get may return
Bodies ==
    { ObjectPayload(ps) : ps \in SeqsUpTo(Elements \cup { JNonObject }, 1) }
      \cup { OtherPayload, NoProductsPayload, TextProductsPayload, ScalarProductsPayload }

BodyKinds == { "object", "other", "no_products", "text_products", "scalar_products" }

\* an element of the iterable handed to batch_search: a (brand, title) tuple
\* of any two values
Record(brand, title) == [pair |-> TRUE, brand |-> brand, title |-> title]

\* an element that is not a pair, as the 1-tuple ("Nk",)
NotAPair == [pair |-> FALSE, brand |-> JAbsent, title |-> JAbsent]

Records ==
    { Record(JStr(TextNk), JStr(TextPg4)),
      Record(JStr(<<>>), JStr(TextPg4)),
      Record(JStr(TextNk), JStr(<<>>)),
      Record(JNull, JStr(TextPg4)),
      Record(JStr(TextNk), JNull),
      Record(JNum(5), JStr(TextPg4)),
      NotAPair }

\* not value
Falsy(v) ==
    \/ v.k \in {"null", "absent"}
    \/ v.k = "str" /\ v.s = <<>>
    \/ v.k \in {"num", "bool"} /\ v.n = 0

\* the test at the top of _search_single
IsEmptyRecord(r) == Falsy(r.brand) \/ Falsy(r.title)

\* unicodedata.normalize raises TypeError unless its argument is a str
Normalizable(r) == r.brand.k = "str" /\ r.title.k = "str"

\* the (brand, title) pair of texts of a record of two strings
QueryOf(r) == [brand |-> r.brand.s, title |-> r.title.s]

\* a record no request can be made for: empty, or not a pair of strings
InputError(r) == ~r.pair \/ IsEmptyRecord(r) \/ ~Normalizable(r)

\* an exception raised inside _default_http_get: in the with block around
\* urlopen and read, or in json.loads
Exc(stage, class) == [stage |-> stage, class |-> class]

AdapterFailures == { "network", "status", "timeout", "json", "charset" }

\* the exceptions the library raises for a failure.  urlopen wraps an OSError
\* of connecting and sending in URLError; an error of waiting for or reading
\* the response is raised as it is.
LibraryExceptions(failure) ==
    CASE failure = "network" -> { Exc("urlopen", "URLError"),
                                  Exc("urlopen", "ConnectionResetError") }
      [] failure = "status" -> { Exc("urlopen", "HTTPError") }
      [] failure = "timeout" -> { Exc("urlopen", "URLError"),
                                  Exc("urlopen", "TimeoutError") }
      [] failure = "charset" -> { Exc("urlopen", "LookupError") }
      [] failure = "json" -> { Exc("loads", "JSONDecodeError") }

\* the two except clauses of _default_http_get
Caught(exc) ==
    \/ exc.stage = "urlopen" /\ exc.class \in { "HTTPError", "URLError" }
    \/ exc.stage = "loads" /\ exc.class = "JSONDecodeError"

\* the exception that leaves _default_http_get
_default_http_get(exc) == IF Caught(exc) THEN "RemoteLookupError" ELSE exc.class

\* the response recorded for a request whose adapter raised
FailedPayload == [k |-> "failed", products |-> <<>>]

InitAny ==
    /\ queries \in SeqsUpTo(Records, MaxQueries)
    /\ min_score \in Thresholds
    /\ results = <<>>
    /\ pc = "running"
    /\ http_calls = <<>>
    /\ payload = NoPayload
    /\ normalized_brand = <<>>
    /\ normalized_title = <<>>
    /\ products = <<>>
    /\ best_product = 0
    /\ best_score = NegInf
    /\ fetched = 0
    /\ DirectCall

\* the for statement of batch_search cannot unpack the element
UnpackRaises ==
    /\ InLoop
    /\ ~queries[Position].pair
    /\ raised' = "ValueError"
    /\ pc' = "raised"
    /\ payload' = NoPayload
    /\ call' = NoCall
    /\ UNCHANGED <<queries, min_score, results, http_calls, normalized_brand,
                   normalized_title, products, best_product, best_score, fetched,
                   limit, timeout, adapter>>

\* not brand or not title: _search_single returns None
RecordEmpty ==
    /\ InLoop
    /\ queries[Position].pair
    /\ IsEmptyRecord(queries[Position])
    /\ results' = Append(results, None)
    /\ payload' = NoPayload
    /\ call' = NoCall
    /\ UNCHANGED <<queries, min_score, pc, http_calls, normalized_brand,
                   normalized_title, products, best_product, best_score, fetched,
                   raised, limit, timeout, adapter>>

\* _normalize_text raises TypeError for a value that is not a string
NormalizeRaises ==
    /\ InLoop
    /\ queries[Position].pair
    /\ ~IsEmptyRecord(queries[Position])
    /\ ~Normalizable(queries[Position])
    /\ raised' = "TypeError"
    /\ pc' = "raised"
    /\ payload' = NoPayload
    /\ call' = NoCall
    /\ UNCHANGED <<queries, min_score, results, http_calls, normalized_brand,
                   normalized_title, products, best_product, best_score, fetched,
                   limit, timeout, adapter>>

\* the request can be made
Fetchable == InLoop /\ ~InputError(queries[Position])

\* _default_http_get fails and raises RemoteLookupError: _search_single
\* returns None
AdapterRemoteLookupError ==
    /\ Fetchable
    /\ \E failure \in AdapterFailures : \E exc \in LibraryExceptions(failure) :
          /\ _default_http_get(exc) = "RemoteLookupError"
          /\ call' = [args |-> <<failure, exc>>, ret |-> _default_http_get(exc)]
    /\ http_calls' = Append(http_calls,
                             HttpCall(Position, QueryOf(queries[Position]), ErrorPayload))
    /\ results' = Append(results, None)
    /\ payload' = ErrorPayload
    /\ normalized_brand' = _normalize_text(queries[Position].brand.s)
    /\ normalized_title' = _normalize_text(queries[Position].title.s)
    /\ UNCHANGED <<queries, min_score, pc, products, best_product, best_score, fetched,
                   raised, limit, timeout, adapter>>

\* _default_http_get fails with an exception neither except clause names:
\* nothing on the way catches it
AdapterRaises ==
    /\ Fetchable
    /\ \E failure \in AdapterFailures : \E exc \in LibraryExceptions(failure) :
          /\ _default_http_get(exc) # "RemoteLookupError"
          /\ call' = [args |-> <<failure, exc>>, ret |-> _default_http_get(exc)]
          /\ raised' = _default_http_get(exc)
    /\ http_calls' = Append(http_calls,
                             HttpCall(Position, QueryOf(queries[Position]), FailedPayload))
    /\ payload' = FailedPayload
    /\ normalized_brand' = _normalize_text(queries[Position].brand.s)
    /\ normalized_title' = _normalize_text(queries[Position].title.s)
    /\ pc' = "raised"
    /\ UNCHANGED <<queries, min_score, results, products, best_product, best_score,
                   fetched, limit, timeout, adapter>>

\* http_get returns a body whose products cannot be iterated: the for
\* statement of _fetch_products raises TypeError
ProductsRaise ==
    /\ Fetchable
    /\ \E body \in Bodies :
          /\ ~ProductsIterable(body)
          /\ http_calls' = Append(http_calls,
                                   HttpCall(Position, QueryOf(queries[Position]), body))
          /\ payload' = body
    /\ normalized_brand' = _normalize_text(queries[Position].brand.s)
    /\ normalized_title' = _normalize_text(queries[Position].title.s)
    /\ raised' = "TypeError"
    /\ pc' = "raised"
    /\ call' = NoCall
    /\ UNCHANGED <<queries, min_score, results, products, best_product, best_score,
                   fetched, limit, timeout, adapter>>

\* http_get returns a body _fetch_products can go through
BodyScored ==
    /\ Fetchable
    /\ \E body \in Bodies :
          /\ ProductsIterable(body)
          /\ \E out \in { CallSearchSingle(queries[Position].brand.s,
                                           queries[Position].title.s, min_score, body) } :
                /\ http_calls' = Append(http_calls,
                                         HttpCall(Position, QueryOf(queries[Position]), body))
                /\ payload' = body
                /\ normalized_brand' = out.normalized_brand
                /\ normalized_title' = out.normalized_title
                /\ products' = out.products
                /\ best_product' = out.best_product
                /\ best_score' = out.best_score
                /\ results' = Append(results, out.result)
    /\ call' = NoCall
    /\ UNCHANGED <<queries, min_score, pc, fetched, raised, limit, timeout, adapter>>

NextAny ==
    \/ UnpackRaises
    \/ RecordEmpty
    \/ NormalizeRaises
    \/ AdapterRemoteLookupError
    \/ AdapterRaises
    \/ ProductsRaise
    \/ BodyScored
    \/ BatchSearchReturn

SpecAny == InitAny /\ [][NextAny]_vars

\* ------------------------------------------------------------ __init__

\* the limit and timeout arguments a model is constructed with
Limits == { -1, 0, 1, DefaultLimit }

Timeouts == { -1, 0, 1, DefaultTimeout }

\* variant: only negative values are refused
InvalidConfigNegative(l, t) == l < 0 \/ t < 0

\* the two tests of __init__
InvalidConfig(l, t) == l <= 0 \/ t <= 0

\* a model is about to be constructed and given a batch of at most one query
InitConstruct ==
    /\ limit \in Limits
    /\ timeout \in Timeouts
    /\ queries \in SeqsUpTo(Queries, 1)
    /\ min_score = <<9, 20>>
    /\ pc = "constructing"
    /\ results = <<>>
    /\ http_calls = <<>>
    /\ payload = NoPayload
    /\ normalized_brand = <<>>
    /\ normalized_title = <<>>
    /\ products = <<>>
    /\ best_product = 0
    /\ best_score = NegInf
    /\ fetched = 0
    /\ raised = "none"
    /\ adapter = NoAdapter
    /\ call = NoCall

\* __init__ raises ValueError
ConstructRaises ==
    /\ pc = "constructing"
    /\ InvalidConfig(limit, timeout)
    /\ raised' = "ValueError"
    /\ pc' = "raised"
    /\ UNCHANGED <<queries, min_score, results, http_calls, payload, normalized_brand,
                   normalized_title, products, best_product, best_score, fetched,
                   limit, timeout, adapter, call>>

\* __init__ returns: the model exists and batch_search is called on it
Construct ==
    /\ pc = "constructing"
    /\ ~InvalidConfig(limit, timeout)
    /\ pc' = "running"
    /\ UNCHANGED <<queries, min_score, results, http_calls, payload, normalized_brand,
                   normalized_title, products, best_product, best_score, fetched,
                   outside>>

NextConstruct ==
    \/ ConstructRaises
    \/ Construct
    \/ SearchSingleEmpty
    \/ SearchSingleRemoteError
    \/ SearchSingleScored
    \/ BatchSearchReturn

SpecConstruct == InitConstruct /\ [][NextConstruct]_vars

\* ------------------------------------------------------------ adapters

\* the entry points that call batch_search: cli.main, lambda_handler.handler,
\* portal do_POST, and the /upload and /search endpoints of the portal
Adapters == { "cli", "lambda", "portal_post", "upload", "search" }

\* the min_score a user supplies; 9/20 is the default of every adapter
MinScoreInputs == { <<-1, 2>>, Zero, <<9, 20>>, One, <<3, 2>> }

\* the entries of a queries list: objects with brand and title (rows of the
\* CSV file, pairs of /search), and a value that is not an object
Entries ==
    { JObject(JStr(TextNk), JStr(TextPg4), JAbsent),
      JObject(JStr(<<" ", "N", "K", " ">>), JStr(TextPg4), JAbsent),
      JObject(JStr(<<" ">>), JStr(TextPg4), JAbsent),
      JObject(JStr(TextNk), JAbsent, JAbsent),
      JNonObject }

\* the queries value of a request: a list of entries; for the Lambda event
\* also no queries key and a value that is not a list
QueriesValues(name) ==
    IF name = "lambda"
    THEN { [k |-> "absent", items |-> <<>>], [k |-> "text", items |-> <<>>] }
           \cup { [k |-> "list", items |-> l] : l \in SeqsUpTo(Entries, MaxQueries) }
    ELSE { [k |-> "list", items |-> l] :
               l \in SeqsUpTo({ e \in Entries : e.obj }, MaxQueries) }

Request(name, event, l, t, m, q) ==
    [name |-> name, event |-> event, limit |-> l, timeout |-> t, min_score |-> m,
     queries |-> q]

\* the requests the adapters receive; the Lambda event may be None
Requests ==
    { Request("lambda", "none", DefaultLimit, DefaultTimeout, <<9, 20>>,
              [k |-> "absent", items |-> <<>>]) }
      \cup UNION { { Request(name, "object", l, t, m, q) :
                         l \in { 0, DefaultLimit }, t \in { 0, DefaultTimeout },
                         m \in MinScoreInputs, q \in QueriesValues(name) } :
                   name \in Adapters }

\* the query an adapter makes of one entry, or nothing: _parse_queries of the
\* Lambda handler and _parse_queries_bytes of the portal strip and then
\* test, load_queries of the CLI tests and then strips, /search tests only
LoadQuery(name, e) ==
    LET brand == StrOf(GetOrEmpty(e.brand))
        title == StrOf(GetOrEmpty(e.title))
    IN  CASE name \in { "lambda", "portal_post", "upload" } ->
               (IF Strip(brand) = <<>> \/ Strip(title) = <<>> THEN <<>>
                ELSE << [brand |-> Strip(brand), title |-> Strip(title)] >>)
          [] name = "cli" ->
               (IF brand = <<>> \/ title = <<>> THEN <<>>
                ELSE << [brand |-> Strip(brand), title |-> Strip(title)] >>)
          [] name = "search" ->
               (IF brand = <<>> \/ title = <<>> THEN <<>>
                ELSE << [brand |-> brand, title |-> title] >>)

LoadQueries(name, items) == FlatMap(LAMBDA e : LoadQuery(name, e), items)

\* _parse_queries of the Lambda handler raises ValueError
BadItems(items) ==
    \/ items = <<>>
    \/ \E i \in 1..Len(items) : ~items[i].obj \/ LoadQuery("lambda", items[i]) = <<>>

\* what the adapter refuses the request for before it builds a model, "none"
\* when it goes on
Rejection(req) ==
    CASE req.name = "lambda" ->
           (IF req.event = "none" THEN "event"
            ELSE IF req.limit <= 0 THEN "limit"
            ELSE IF req.timeout <= 0 THEN "timeout"
            ELSE IF RLeq(req.min_score, Zero) THEN "min_score"
            ELSE IF req.queries.k # "list" THEN "queries"
            ELSE IF BadItems(req.queries.items) THEN "queries"
            ELSE "none")
      [] req.name = "portal_post" ->
           (IF req.limit < 1 THEN "limit"
            ELSE IF req.timeout <= 0 THEN "timeout"
            ELSE IF RLess(req.min_score, Zero) \/ RLess(One, req.min_score)
                 THEN "min_score"
            ELSE IF LoadQueries(req.name, req.queries.items) = <<>> THEN "queries"
            ELSE "none")
      [] req.name \in { "cli", "upload" } ->
           (IF LoadQueries(req.name, req.queries.items) = <<>> THEN "queries"
            ELSE "none")
      [] OTHER -> "none"

\* the exception a refusal is raised as; the portal renders an error page
RefusalOf(name) ==
    CASE name = "lambda" -> "ValueError"
      [] name = "cli" -> "SystemExit"
      [] OTHER -> "none"

\* _serialize_result of the Lambda handler
_serialize_result(result) ==
    IF ~result.some THEN [k |-> "null"]
    ELSE [k |-> "object", brand |-> result.brand, title |-> result.title,
          price |-> result.price, score |-> result.score]

InitAdapters ==
    /\ adapter \in { [name |-> req.name, request |-> req, reason |-> "none",
                      log |-> <<>>, response |-> <<>>] : req \in Requests }
    /\ pc = "request"
    /\ queries = <<>>
    /\ min_score = <<9, 20>>
    /\ limit = DefaultLimit
    /\ timeout = DefaultTimeout
    /\ results = <<>>
    /\ http_calls = <<>>
    /\ payload = NoPayload
    /\ normalized_brand = <<>>
    /\ normalized_title = <<>>
    /\ products = <<>>
    /\ best_product = 0
    /\ best_score = NegInf
    /\ fetched = 0
    /\ raised = "none"
    /\ call = NoCall

\* the locals of _search_single, which the adapters do not see
locals == <<http_calls, payload, normalized_brand, normalized_title, products,
            best_product, best_score, fetched, call>>

\* the adapter refuses the request
Reject ==
    /\ pc = "request"
    /\ Rejection(adapter.request) # "none"
    /\ adapter' = [adapter EXCEPT !.reason = Rejection(adapter.request)]
    /\ raised' = RefusalOf(adapter.name)
    /\ pc' = "rejected"
    /\ UNCHANGED <<queries, min_score, limit, timeout, results, locals>>

\* the adapter has its queries and its configuration
Accept ==
    /\ pc = "request"
    /\ Rejection(adapter.request) = "none"
    /\ queries' = LoadQueries(adapter.name, adapter.request.queries.items)
    /\ min_score' = adapter.request.min_score
    /\ limit' = adapter.request.limit
    /\ timeout' = adapter.request.timeout
    /\ pc' = "accepted"
    /\ UNCHANGED <<adapter, raised, results, locals>>

\* the constructor raises ValueError; do_POST of the portal catches it
FactoryRaises ==
    /\ pc = "accepted"
    /\ InvalidConfig(limit, timeout)
    /\ adapter' = [adapter EXCEPT !.reason = "factory"]
    /\ raised' = IF adapter.name = "portal_post" THEN "none" ELSE "ValueError"
    /\ pc' = "rejected"
    /\ UNCHANGED <<queries, min_score, limit, timeout, results, locals>>

\* the adapter obtains a model and calls batch_search on it
Factory ==
    /\ pc = "accepted"
    /\ ~InvalidConfig(limit, timeout)
    /\ adapter' = [adapter EXCEPT !.log = Append(@, "factory")]
    /\ pc' = "searching"
    /\ UNCHANGED <<queries, min_score, limit, timeout, results, raised, locals>>

\* batch_search returns a list with a result or None for each query
SearchReturns ==
    /\ pc = "searching"
    /\ results' \in [1..Len(queries) -> { None, SearchResult(TextNk, TextPg4, 75, One) }]
    /\ adapter' = [adapter EXCEPT !.log = Append(@, "batch_search")]
    /\ pc' = "closing"
    /\ UNCHANGED <<queries, min_score, limit, timeout, raised, locals>>

\* batch_search raises
SearchRaises ==
    /\ pc = "searching"
    /\ raised' = "TimeoutError"
    /\ adapter' = [adapter EXCEPT !.log = Append(@, "batch_search")]
    /\ pc' = "closing"
    /\ UNCHANGED <<queries, min_score, limit, timeout, results, locals>>

\* variant: close is called after the try statement, not in a finally clause
CloseOnReturn ==
    /\ pc = "closing"
    /\ adapter' = [adapter EXCEPT !.log = IF raised = "none" THEN Append(@, "close")
                                          ELSE @]
    /\ pc' = IF raised = "none" THEN "responding" ELSE "raised"
    /\ UNCHANGED <<queries, min_score, limit, timeout, results, raised, locals>>

\* the finally clause: model.close(), then the exception goes on if there is one
Close ==
    /\ pc = "closing"
    /\ adapter' = [adapter EXCEPT !.log = Append(@, "close")]
    /\ pc' = IF raised = "none" THEN "responding" ELSE "raised"
    /\ UNCHANGED <<queries, min_score, limit, timeout, results, raised, locals>>

\* the adapter returns its answer: one entry for each result
Respond ==
    /\ pc = "responding"
    /\ adapter' = [adapter EXCEPT !.response = MapSeq(_serialize_result, results)]
    /\ pc' = "responded"
    /\ UNCHANGED <<queries, min_score, limit, timeout, results, raised, locals>>

NextAdapters ==
    \/ Reject
    \/ Accept
    \/ FactoryRaises
    \/ Factory
    \/ SearchReturns
    \/ SearchRaises
    \/ Close
    \/ Respond

SpecAdapters == InitAdapters /\ [][NextAdapters]_vars

\* ------------------------------------------------------------ helpers alone

\* the characters of the texts _token_similarity is applied to
TokenChars == { "a", "b", " " }

\* the characters of the texts _normalize_text is applied to: letters, a
\* digit, punctuation, whitespace, an accented letter and a currency sign
NormalizeChars == { "N", "k", "4", "-", " ", "e'", "EUR" }

\* the names a header row of the uploaded CSV is made of
HeaderNames ==
    { <<"b", "r", "a", "n", "d">>, <<"b", "r", "a", "n", "d", " ">>,
      <<"t", "i", "t", "l", "e">>, <<"T", "i", "t", "l", "e">>,
      <<"p", "r", "i", "c", "e">> }

\* the data rows of the uploaded CSV: the cells of a row in column order, a
\* row being possibly shorter than the header
CsvRows ==
    { <<TextNk, TextPg4>>, <<TextPg4, <<" ", "N", "k", " ">>>>, <<TextNk>>,
      <<<<>>, TextPg4>>, <<TextNk, <<" ">>>> }

\* name.strip().lower() of the header check
HeaderKey(name) == MapSeq(LowerChar, Strip(name))

\* (row.get(key) or "") on a row of csv.DictReader: the cell under the last
\* column whose name is key, "" when there is no such column or no such cell
RowGet(header, row, key) ==
    LET at == { i \in 1..Len(header) : header[i] = key /\ i <= Len(row) }
        last == { i \in 1..Len(header) : header[i] = key }
    IN  IF last = {} THEN <<>>
        ELSE IF (CHOOSE i \in last : \A j \in last : j <= i) \notin at THEN <<>>
        ELSE row[CHOOSE i \in last : \A j \in last : j <= i]

\* _parse_queries_bytes on a decoded file with the given header row (empty
\* for a file without one) and data rows
_parse_queries_bytes(header, rows) ==
    IF header = <<>>
    THEN [ok |-> FALSE, queries |-> <<>>]
    ELSE IF ~({ <<"b", "r", "a", "n", "d">>, <<"t", "i", "t", "l", "e">> }
                \subseteq { HeaderKey(header[i]) : i \in 1..Len(header) })
    THEN [ok |-> FALSE, queries |-> <<>>]
    ELSE [ok |-> TRUE,
          queries |->
             FlatMap(LAMBDA row :
                        LET brand == Strip(RowGet(header, row, <<"b", "r", "a", "n", "d">>))
                            title == Strip(RowGet(header, row, <<"t", "i", "t", "l", "e">>))
                        IN  IF brand # <<>> /\ title # <<>>
                            THEN << [brand |-> brand, title |-> title] >>
                            ELSE <<>>,
                     rows)]

\* a helper is about to be applied to its arguments
InitHelpers ==
    /\ \/ call \in { [fn |-> "_token_similarity", args |-> <<a, b>>, ret |-> <<>>] :
                         a \in SeqsUpTo(TokenChars, MaxText),
                         b \in SeqsUpTo(TokenChars, MaxText) }
       \/ call \in { [fn |-> "_normalize_text", args |-> <<x>>, ret |-> <<>>] :
                         x \in SeqsUpTo(NormalizeChars, MaxText) }
       \/ call \in { [fn |-> "_parse_queries_bytes", args |-> <<header, rows>>,
                       ret |-> <<>>] :
                         header \in SeqsUpTo(HeaderNames, 2) \ { <<>> },
                         rows \in SeqsUpTo(CsvRows, MaxQueries) }
       \/ call = [fn |-> "_parse_queries_bytes", args |-> << <<>>, <<>> >>,
                  ret |-> <<>>]
    /\ pc = "calling"
    /\ queries = <<>>
    /\ min_score = <<9, 20>>
    /\ results = <<>>
    /\ http_calls = <<>>
    /\ payload = NoPayload
    /\ normalized_brand = <<>>
    /\ normalized_title = <<>>
    /\ products = <<>>
    /\ best_product = 0
    /\ best_score = NegInf
    /\ fetched = 0
    /\ raised = "none"
    /\ limit = DefaultLimit
    /\ timeout = DefaultTimeout
    /\ adapter = NoAdapter

TokenSimilarityCall ==
    /\ pc = "calling"
    /\ call.fn = "_token_similarity"
    /\ call' = [call EXCEPT !.ret = _token_similarity(call.args[1], call.args[2])]
    /\ pc' = "called"
    /\ UNCHANGED <<queries, min_score, results, http_calls, payload, normalized_brand,
                   normalized_title, products, best_product, best_score, fetched,
                   raised, limit, timeout, adapter>>

NormalizeTextCall ==
    /\ pc = "calling"
    /\ call.fn = "_normalize_text"
    /\ call' = [call EXCEPT !.ret = _normalize_text(call.args[1])]
    /\ pc' = "called"
    /\ UNCHANGED <<queries, min_score, results, http_calls, payload, normalized_brand,
                   normalized_title, products, best_product, best_score, fetched,
                   raised, limit, timeout, adapter>>

ParseQueriesBytesCall ==
    /\ pc = "calling"
    /\ call.fn = "_parse_queries_bytes"
    /\ call' = [call EXCEPT !.ret = _parse_queries_bytes(call.args[1], call.args[2])]
    /\ pc' = "called"
    /\ UNCHANGED <<queries, min_score, results, http_calls, payload, normalized_brand,
                   normalized_title, products, best_product, best_score, fetched,
                   raised, limit, timeout, adapter>>

NextHelpers ==
    \/ TokenSimilarityCall
    \/ NormalizeTextCall
    \/ ParseQueriesBytesCall

SpecHelpers == InitHelpers /\ [][NextHelpers]_vars

\* ------------------------------------------------------------ _build_handler

\* the portal process: cls holds the class attributes config and
\* model_factory of _PricingPortalRequestHandler, the one class every call
\* of _build_handler returns; built holds the arguments of the calls that
\* returned, building those of a call between its two assignments; reading
\* holds the requests that have read self.config, served those that went on
\* to read type(self).model_factory
InitHandlers ==
    /\ adapter = [name |-> "portal_server",
                  cls |-> [config |-> "unset", model_factory |-> "unset"],
                  built |-> <<>>, building |-> <<>>, reading |-> <<>>, served |-> <<>>]
    /\ pc = "serving"
    /\ queries = <<>>
    /\ min_score = <<9, 20>>
    /\ results = <<>>
    /\ http_calls = <<>>
    /\ payload = NoPayload
    /\ normalized_brand = <<>>
    /\ normalized_title = <<>>
    /\ products = <<>>
    /\ best_product = 0
    /\ best_score = NegInf
    /\ fetched = 0
    /\ raised = "none"
    /\ limit = DefaultLimit
    /\ timeout = DefaultTimeout
    /\ call = NoCall

\* _build_handler: handler_class.config = config
BuildSetConfig ==
    /\ adapter.building = <<>>
    /\ Len(adapter.built) < MaxBuilds
    /\ \E config \in { "config1", "config2" }, model_factory \in { "factory1", "factory2" } :
          adapter' = [adapter EXCEPT
                         !.cls.config = config,
                         !.building = << [config |-> config,
                                          model_factory |-> model_factory] >>]
    /\ UNCHANGED <<queries, min_score, results, pc, raised, limit, timeout, locals>>

\* _build_handler: handler_class.model_factory = staticmethod(model_factory),
\* return handler_class
BuildSetFactory ==
    /\ adapter.building # <<>>
    /\ adapter' = [adapter EXCEPT
                      !.cls.model_factory = adapter.building[1].model_factory,
                      !.built = Append(@, adapter.building[1]),
                      !.building = <<>>]
    /\ UNCHANGED <<queries, min_score, results, pc, raised, limit, timeout, locals>>

\* a server thread handles a request with the class a call returned: do_POST
\* reads self.config
ServeReadConfig ==
    /\ Len(adapter.reading) + Len(adapter.served) < MaxRequests
    /\ \E h \in 1..Len(adapter.built) :
          adapter' = [adapter EXCEPT
                         !.reading = Append(@, [handler |-> h,
                                                config |-> adapter.cls.config])]
    /\ UNCHANGED <<queries, min_score, results, pc, raised, limit, timeout, locals>>

\* the thread goes on: do_POST reads type(self).model_factory
ServeReadFactory ==
    /\ \E r \in 1..Len(adapter.reading) :
          adapter' = [adapter EXCEPT
                         !.reading = SubSeq(@, 1, r - 1) \o SubSeq(@, r + 1, Len(@)),
                         !.served = Append(@, [handler |-> adapter.reading[r].handler,
                                               config |-> adapter.reading[r].config,
                                               model_factory |-> adapter.cls.model_factory])]
    /\ UNCHANGED <<queries, min_score, results, pc, raised, limit, timeout, locals>>

NextHandlers ==
    \/ BuildSetConfig
    \/ BuildSetFactory
    \/ ServeReadConfig
    \/ ServeReadFactory

SpecHandlers == InitHandlers /\ [][NextHandlers]_vars

\* ------------------------------------------------------------ properties

\* the latest query of the batch got a response, which was parsed and scored
Scored == results # <<>> /\ payload.k \in {"object", "other"}

LatestQuery == queries[Len(results)]

LatestResult == results[Len(results)]

\* the scores the loop computed for the candidate at position k of products
ScoresAt(k) == Scores(products[k], normalized_brand, normalized_title)

InUnit(x) == RLeq(Zero, x) /\ RLeq(x, One)

\* C1: every SearchResult batch_search puts in its list has a score that is
\* at least the min_score of the call.
C1_ScoreAtLeastMinScore ==
    \A i \in 1..Len(results) : results[i].some => RLeq(min_score, results[i].score)

\* a match below 1 under a positive threshold
C1_Witness ==
    /\ Scored
    /\ LatestResult.some
    /\ RLess(Zero, min_score)
    /\ RLess(LatestResult.score, One)

\* C2: the score of every SearchResult lies in [0, 1]; for every candidate
\* the brand_score and the title_score lie in [0, 1] and the combined score is
\* half their sum.
C2_ScoresInUnitInterval ==
    /\ \A i \in 1..Len(results) : results[i].some => InUnit(results[i].score)
    /\ Scored =>
         \A k \in 1..Len(products) : \A c \in {ScoresAt(k)} :
            /\ InUnit(c.brand_score)
            /\ InUnit(c.title_score)
            /\ RMul(<<2, 1>>, c.combined) = RAdd(c.brand_score, c.title_score)

\* a match whose score is strictly inside the interval, among candidates one
\* of which has a brand_score strictly inside it
C2_Witness ==
    /\ Scored
    /\ LatestResult.some
    /\ RLess(Zero, LatestResult.score) /\ RLess(LatestResult.score, One)
    /\ \E k \in 1..Len(products) :
          RLess(Zero, ScoresAt(k).brand_score) /\ RLess(ScoresAt(k).brand_score, One)

\* C3: a query whose brand or title is empty gets None, and http_get is not
\* called for it.
C3_EmptyQueryNoRequest ==
    \A i \in 1..Len(results) :
       (queries[i].brand = <<>> \/ queries[i].title = <<>>) =>
          /\ results[i] = None
          /\ \A k \in 1..Len(http_calls) : http_calls[k].i # i

\* a batch that has returned, with a query of empty title and a request for
\* another query
C3_Witness ==
    /\ pc = "returned"
    /\ http_calls # <<>>
    /\ \E i \in 1..Len(results) : queries[i].brand # <<>> /\ queries[i].title = <<>>

\* C4: when http_get raises RemoteLookupError for a query, the result at the
\* position of that query is None, every later query with a brand and a title
\* has its own request, and batch_search returns one result for each query.
C4_RemoteErrorIsNoMatch ==
    /\ \A k \in 1..Len(http_calls) :
          http_calls[k].response.k = "RemoteLookupError" =>
             /\ results[http_calls[k].i] = None
             /\ \A j \in (http_calls[k].i + 1)..Len(results) :
                   (queries[j].brand # <<>> /\ queries[j].title # <<>>) =>
                      \E m \in 1..Len(http_calls) : http_calls[m].i = j
    /\ pc = "returned" => Len(results) = Len(queries)

\* the request of the first query raised, the second query has a match
C4_Witness ==
    /\ pc = "returned"
    /\ Len(results) >= 2
    /\ http_calls # <<>>
    /\ http_calls[1].i = 1
    /\ http_calls[1].response.k = "RemoteLookupError"
    /\ results[2].some

\* the outcome of searching one query alone with the given response
SearchAlone(q, min, response) ==
    IF q.brand = <<>> \/ q.title = <<>> THEN None
    ELSE IF response.k = "RemoteLookupError" THEN None
    ELSE SearchFetched(q.brand, q.title, min, response).result

\* at most one request is made in a step: for the query at position i, with
\* the response in payload after the step
OneRequest(i) ==
    /\ Len(http_calls') = Len(http_calls) + 1
    /\ SubSeq(http_calls', 1, Len(http_calls)) = http_calls
    /\ http_calls'[Len(http_calls')].i = i
    /\ http_calls'[Len(http_calls')].response = payload'
    /\ payload' # NoPayload

\* C5: batch_search returns one entry for each query, in the order of the
\* queries: the list never holds more entries than there are queries and
\* holds one for each at the return; every step leaves the entries made so
\* far alone and appends the outcome of searching the next query alone, with
\* min_score and the response to its own request (none for a query without
\* brand or title).
C5_OneIndependentResultPerQuery ==
    /\ [](Len(results) <= Len(queries))
    /\ [](pc = "returned" => Len(results) = Len(queries))
    /\ [][ /\ queries' = queries
           /\ min_score' = min_score
           /\ \/ results' = results /\ http_calls' = http_calls
              \/ /\ Len(results) < Len(queries)
                 /\ results' = Append(results, SearchAlone(queries[Len(results) + 1],
                                                           min_score, payload'))
                 /\ IF queries[Len(results) + 1].brand = <<>>
                       \/ queries[Len(results) + 1].title = <<>>
                    THEN http_calls' = http_calls
                    ELSE OneRequest(Len(results) + 1) ]_vars

\* a returned batch of two queries with the same text whose results differ:
\* one has a match, the other none
C5_Witness ==
    /\ pc = "returned"
    /\ Len(queries) = 2
    /\ queries[1] = queries[2]
    /\ results[1].some
    /\ ~results[2].some

\* C6: a candidate whose normalized brand equals that of the query has
\* brand_score 1 and passes the brand filter under every threshold; it is in
\* the running for the match exactly when its title_score is at least
\* min_score.  A candidate whose normalized brand differs and whose token
\* similarity to the query brand is below min_score is not the match.
C6_ExactBrandExempt ==
    Scored =>
      \A k \in 1..Len(products) : \A c \in {ScoresAt(k)} :
         /\ c.candidate_brand = normalized_brand =>
               /\ c.brand_score = One
               /\ \A t \in Thresholds :
                     ~BrandSkip(c.brand_score, c.candidate_brand, normalized_brand, t)
               /\ RLeq(min_score, c.title_score) =>
                     best_product # 0 /\ RLeq(c.combined, best_score)
               /\ RLess(c.title_score, min_score) => best_product # k
         /\ ( /\ c.candidate_brand # normalized_brand
              /\ RLess(_token_similarity(c.candidate_brand, normalized_brand), min_score) )
            => best_product # k

\* a candidate of the same brand is the match although another candidate,
\* whose brand differs and scores below min_score, comes first
C6_Witness ==
    /\ Scored
    /\ Len(products) = 2
    /\ best_product = 2
    /\ ScoresAt(2).candidate_brand = normalized_brand
    /\ ScoresAt(1).candidate_brand # normalized_brand
    /\ RLess(ScoresAt(1).brand_score, min_score)
    /\ RLeq(min_score, ScoresAt(1).title_score)

\* C7: when the search of the latest query returned a match, the search of
\* the same query with the same response under every lower threshold returns
\* a match as well.
C7_LowerThresholdKeepsMatch ==
    (Scored /\ LatestResult.some) =>
       \A t \in Thresholds :
          RLeq(t, min_score) =>
             SearchFetched(LatestQuery.brand, LatestQuery.title, t, payload).result.some

\* a match under threshold 1, where lower thresholds exist, among two
\* candidates of which one scores less
C7_Witness ==
    /\ Scored
    /\ LatestResult.some
    /\ min_score = One
    /\ Len(products) = 2
    /\ \E k \in 1..2 : RLess(ScoresAt(k).combined, One)

\* the candidate at position k passes the brand filter and the title filter
SurvivesAt(k) ==
    \A c \in {ScoresAt(k)} :
       /\ ~BrandSkip(c.brand_score, c.candidate_brand, normalized_brand, min_score)
       /\ ~TitleSkip(c.title_score, min_score)

\* C8: the match is the first, in the order of products, of the candidates
\* with the highest combined score among those that pass both filters.
C8_FirstOfTheBest ==
    (Scored /\ LatestResult.some) =>
       /\ best_product \in 1..Len(products)
       /\ SurvivesAt(best_product)
       /\ best_score = ScoresAt(best_product).combined
       /\ LatestResult.score = best_score
       /\ \A k \in 1..Len(products) :
             SurvivesAt(k) =>
                /\ RLeq(ScoresAt(k).combined, best_score)
                /\ ScoresAt(k).combined = best_score => best_product <= k

\* two surviving candidates tie for the highest combined score and differ in
\* price; the first one is the match
C8_Witness ==
    /\ Scored
    /\ LatestResult.some
    /\ Len(products) = 2
    /\ best_product = 1
    /\ SurvivesAt(2)
    /\ ScoresAt(2).combined = best_score
    /\ products[1].price # products[2].price
    /\ LatestResult.price = products[1].price

\* the position in the products array of the response of the element that
\* became the candidate at position k of products
ReceivedPosition(k) ==
    CHOOSE j \in 1..Len(payload.products) :
       /\ Parsed(payload.products[j]) # <<>>
       /\ Cardinality({m \in 1..j : Parsed(payload.products[m]) # <<>>}) = k

\* the element of the response the match was made from
ReceivedMatch == payload.products[ReceivedPosition(best_product)]

\* C9 as stated: the result carries the brand, title and price of the winning
\* element exactly as they are in the response, and the combined score.
C9_AsReceived ==
    (Scored /\ LatestResult.some) =>
       /\ JStr(LatestResult.brand) = ReceivedMatch.brand
       /\ JStr(LatestResult.title) = ReceivedMatch.title
       /\ JNum(LatestResult.price) = ReceivedMatch.price
       /\ LatestResult.score = ScoresAt(best_product).combined

\* C9, amended: the result carries the brand and the title of the winning
\* element as text with the surrounding whitespace removed, never their
\* normalized form, its price converted to a float, and the combined score
\* half of brand_score plus title_score.
C9_AsParsed ==
    (Scored /\ LatestResult.some) =>
       /\ LatestResult.brand = Strip(StrOf(ReceivedMatch.brand))
       /\ LatestResult.title = Strip(StrOf(ReceivedMatch.title))
       /\ \A price \in {FloatOf(ReceivedMatch.price)} :
             price.ok /\ LatestResult.price = price.value
       /\ \A c \in {ScoresAt(best_product)} :
             RMul(<<2, 1>>, LatestResult.score) = RAdd(c.brand_score, c.title_score)

\* the match was made from an element with whitespace around its brand and a
\* price given as a string; brand and title differ from their normalized forms
C9_Witness ==
    /\ Scored
    /\ LatestResult.some
    /\ ReceivedMatch.brand.k = "str"
    /\ ReceivedMatch.brand.s # LatestResult.brand
    /\ ReceivedMatch.price.k = "str"
    /\ LatestResult.brand # _normalize_text(LatestResult.brand)
    /\ LatestResult.title # _normalize_text(LatestResult.title)

\* an element a valid candidate can be made of: an object whose brand and
\* title are present and not empty and whose price is present and numeric
ValidElement(e) ==
    /\ e.obj
    /\ e.brand.k \notin {"absent", "null"} /\ Strip(StrOf(e.brand)) # <<>>
    /\ e.title.k \notin {"absent", "null"} /\ Strip(StrOf(e.title)) # <<>>
    /\ e.price.k \notin {"absent", "null"} /\ FloatOf(e.price).ok

\* the candidate made of a valid element, nothing for another element
ValidProduct(e) ==
    IF ValidElement(e)
    THEN <<_Product(Strip(StrOf(e.brand)), Strip(StrOf(e.title)), FloatOf(e.price).value)>>
    ELSE <<>>

\* C10 as stated: _fetch_products returns the candidates made of the valid
\* elements of the products array, in the order of the response, and nothing
\* for an element whose brand, title or price is missing, empty or not
\* numeric.
C10_OnlyValidElements ==
    pc = "fetched" => products = FlatMap(ValidProduct, payload.products)

\* C11: for every parsed JSON body http_get returns (an object, a non-object,
\* an object without products, an object whose products is not an array, an
\* array with non-object elements) batch_search does not raise.
C11_AnyBodyNoRaise == payload.k \in BodyKinds => raised = "none"

\* C12: an input error in a query record (an empty or missing field, a record
\* that is not a pair of strings) gives None at the position of the record and
\* is never raised to the caller of batch_search.
C12_InputErrorIsNone ==
    /\ \A k \in 1..Len(results) : InputError(queries[k]) => results[k] = None
    /\ pc = "raised" => ~InputError(queries[Position])

\* C13: every failure of the default adapter (network failure, non-2xx
\* response, timeout expiry, malformed JSON body) leaves _default_http_get as
\* RemoteLookupError and the query gets None.
C13_OnlyRemoteLookupError ==
    call.args # <<>> =>
        /\ call.ret = "RemoteLookupError"
        /\ raised = "none"
        /\ results[Len(results)] = None

\* the requests made for the query at position k
RequestsFor(k) == { c \in 1..Len(http_calls) : http_calls[c].i = k }

C16_MinScoreValidated ==
    /\ pc = "searching" => InUnit(min_score)
    /\ adapter.reason = "min_score" => ~InUnit(adapter.request.min_score)

\* C17: in the Lambda handler and in do_POST of the portal every model the
\* factory gave is closed exactly once, after its batch_search call, whether
\* batch_search returned or raised.
C17_ClosedOnce ==
    adapter.name \in { "lambda", "portal_post" } =>
        /\ \E n \in 0..3 : adapter.log = SubSeq(<<"factory", "batch_search", "close">>, 1, n)
        /\ pc \in { "responding", "responded", "raised" } =>
               adapter.log = <<"factory", "batch_search", "close">>
        /\ pc \in { "request", "accepted", "rejected" } => adapter.log = <<>>

\* batch_search raised in the Lambda handler, and the model was closed
C17_Witness ==
    /\ adapter.name = "lambda"
    /\ pc = "raised"
    /\ raised = "TimeoutError"
    /\ adapter.log = <<"factory", "batch_search", "close">>

\* C18: the Lambda handler raises ValueError when the event is None, when
\* queries is not a list, when the list is empty, when an entry is not an
\* object, or when an entry's brand or title is empty after trimming, and
\* then builds no model and runs no search.  Otherwise (read here for events
\* whose limit and timeout are positive and whose min_score is in [0, 1]) it
\* passes the trimmed pairs to batch_search in event order and answers with
\* one serialized entry per query.
C18_LambdaValidation ==
    LET req == adapter.request
        listed == \/ req.event = "none"
                  \/ req.queries.k # "list"
                  \/ BadItems(req.queries.items)
        configured == req.limit > 0 /\ req.timeout > 0 /\ InUnit(req.min_score)
    IN  adapter.name = "lambda" /\ pc # "request" =>
            /\ listed =>
                   /\ pc = "rejected"
                   /\ raised = "ValueError"
                   /\ adapter.log = <<>>
                   /\ results = <<>>
            /\ ~listed /\ configured =>
                   /\ pc # "rejected"
                   /\ queries = LoadQueries("lambda", req.queries.items)
                   /\ pc = "responded" =>
                          /\ Len(adapter.response) = Len(queries)
                          /\ adapter.response = MapSeq(_serialize_result, results)

\* C19: _token_similarity is the Jaccard index of the two whitespace-split
\* token sets: symmetric, blind to duplicate tokens and to token order, in
\* [0, 1], and 0 when either token set is empty, both empty included.
C19_JaccardIndex ==
    pc = "called" /\ call.fn = "_token_similarity" =>
        LET a == call.args[1]
            b == call.args[2]
            t == Split(a)
        IN  /\ call.ret = _token_similarity(b, a)
            /\ call.ret = _token_similarity(a \o <<" ">> \o a, b)
            /\ call.ret = _token_similarity(Join([i \in 1..Len(t) |-> t[Len(t) + 1 - i]]), b)
            /\ InUnit(call.ret)
            /\ (TokenSet(a) = {} \/ TokenSet(b) = {}) => call.ret = Zero
            /\ (TokenSet(a) # {} /\ TokenSet(b) # {}) =>
                   call.ret = Rat(Cardinality(TokenSet(a) \cap TokenSet(b)),
                                  Cardinality(TokenSet(a) \cup TokenSet(b)))

\* the same two tokens in the other order: similarity 1
C19_Witness ==
    /\ pc = "called"
    /\ call.fn = "_token_similarity"
    /\ call.args = << <<"b", " ", "a">>, <<"a", " ", "b">> >>
    /\ call.ret = One

\* C20: _normalize_text is total and idempotent: it returns a string of the
\* characters a-z, 0-9 and single spaces with no space at either end,
\* normalizing its value again changes nothing, and the empty string or a
\* string of punctuation only gives the empty string.
C20_NormalizeIdempotent ==
    pc = "called" /\ call.fn = "_normalize_text" =>
        LET x == call.args[1]
            y == call.ret
        IN  /\ \A i \in 1..Len(y) : y[i] \in LowerLetters \cup Digits \cup {" "}
            /\ \A i \in 1..(Len(y) - 1) : ~(y[i] = " " /\ y[i + 1] = " ")
            /\ y # <<>> => y[1] # " " /\ y[Len(y)] # " "
            /\ _normalize_text(y) = y
            /\ (\A i \in 1..Len(x) : x[i] \in {"-", " ", "EUR"}) => y = <<>>

\* an accented letter, punctuation and a digit give "e 4"
C20_Witness ==
    /\ pc = "called"
    /\ call.fn = "_normalize_text"
    /\ call.args = << <<"e'", "-", "4">> >>
    /\ call.ret = <<"e", " ", "4">>

\* C21 as stated: there are inputs (a query, a threshold, a response) where a
\* candidate whose normalized brand equals the query brand and whose
\* title_score passes the title filter is the best survivor and the search
\* returns None, its combined score being below min_score.
C21_RejectedAtEnd ==
    \E q \in Queries, min \in Thresholds, p \in Payloads(MaxProducts) :
       \E out \in { SearchFetched(q.brand, q.title, min, p) } :
          /\ ~IsEmptyQuery(q)
          /\ out.best_product # 0
          /\ \E c \in { Scores(out.products[out.best_product], out.normalized_brand,
                                out.normalized_title) } :
                /\ c.candidate_brand = out.normalized_brand
                /\ RLeq(min, c.title_score)
                /\ RLess(c.combined, min)
          /\ ~out.result.some

\* C21: a candidate whose normalized brand equals the query brand and whose
\* title_score passes the title filter has a combined score of at least
\* min_score; when it is the best survivor the final test does not reject it
\* and the search returns it.
C21_ExactBrandPassesFinal ==
    Scored =>
      \A k \in 1..Len(products) : \A c \in {ScoresAt(k)} :
         (c.candidate_brand = normalized_brand /\ RLeq(min_score, c.title_score)) =>
             /\ RLeq(min_score, c.combined)
             /\ best_product = k =>
                    /\ LatestResult.some
                    /\ LatestResult.score = c.combined

\* under min_score 1 a candidate with the brand and the title of the query
\* is the best survivor and is returned
C21_Witness ==
    /\ Scored
    /\ min_score = One
    /\ best_product # 0
    /\ ScoresAt(best_product).candidate_brand = normalized_brand
    /\ LatestResult.some
    /\ LatestResult.score = One

\* C22: for a header row that names a brand column and a title column
\* _parse_queries_bytes returns the trimmed (brand, title) pairs of exactly
\* the data rows where both values are non-empty, in row order; for a header
\* that lacks one of the two it returns the error text.  The columns the
\* header check counts as brand and title are the columns the rows are read
\* from.
C22_HeaderAndRowsAgree ==
    pc = "called" /\ call.fn = "_parse_queries_bytes" =>
        LET header == call.args[1]
            rows == call.args[2]
            keys == MapSeq(HeaderKey, header)
            brand(row) == Strip(RowGet(keys, row, <<"b", "r", "a", "n", "d">>))
            title(row) == Strip(RowGet(keys, row, <<"t", "i", "t", "l", "e">>))
            kept == { i \in 1..Len(rows) : brand(rows[i]) # <<>> /\ title(rows[i]) # <<>> }
            named == { <<"b", "r", "a", "n", "d">>, <<"t", "i", "t", "l", "e">> }
                        \subseteq { keys[i] : i \in 1..Len(keys) }
        IN  /\ ~named => ~call.ret.ok
            /\ named =>
                  /\ call.ret.ok
                  /\ Len(call.ret.queries) = Cardinality(kept)
                  /\ \A n \in 1..Len(call.ret.queries) :
                        \E i \in kept :
                           /\ Cardinality({ j \in kept : j <= i }) = n
                           /\ call.ret.queries[n] =
                                 [brand |-> brand(rows[i]), title |-> title(rows[i])]

\* C23: when the query brand is non-empty but normalizes to the empty string
\* the search still makes its request; every candidate whose brand normalizes
\* to the empty string as well is an exact brand match with brand_score 1,
\* and every other candidate has brand_score 0.
C23_EmptyNormalizedBrand ==
    /\ \A i \in 1..Len(results) :
          (~IsEmptyQuery(queries[i]) /\ _normalize_text(queries[i].brand) = <<>>) =>
              Cardinality(RequestsFor(i)) = 1
    /\ (Scored /\ LatestQuery.brand # <<>> /\ normalized_brand = <<>>) =>
          \A k \in 1..Len(products) : \A c \in {ScoresAt(k)} :
             /\ c.candidate_brand = <<>> =>
                   /\ c.brand_score = One
                   /\ ~BrandSkip(c.brand_score, c.candidate_brand, normalized_brand,
                                 min_score)
             /\ c.candidate_brand # <<>> => c.brand_score = Zero

\* the query brand is "-": of two candidates the one whose brand is
\* punctuation as well is returned, the other has brand_score 0
C23_Witness ==
    /\ Scored
    /\ LatestQuery.brand = <<"-">>
    /\ normalized_brand = <<>>
    /\ Len(products) = 2
    /\ \E k, j \in 1..2 :
          /\ ScoresAt(k).candidate_brand = <<>>
          /\ ScoresAt(j).candidate_brand # <<>>
          /\ ScoresAt(j).brand_score = Zero
          /\ best_product = k
    /\ LatestResult.some
    /\ RLess(Zero, min_score)

\* C24: a handler class returned by _build_handler(config, model_factory)
\* serves every request with the config and the model factory of the call
\* that returned it, also after a later call with other arguments and while
\* requests are served concurrently.
C24_HandlerKeepsItsArguments ==
    /\ \A r \in 1..Len(adapter.reading) :
          adapter.reading[r].config = adapter.built[adapter.reading[r].handler].config
    /\ \A r \in 1..Len(adapter.served) :
          /\ adapter.served[r].config = adapter.built[adapter.served[r].handler].config
          /\ adapter.served[r].model_factory =
                adapter.built[adapter.served[r].handler].model_factory

====
